---------------------------- MODULE Spec2Model ----------------------------
(***************************************************************************)
(* The Egg language of js-pgrmlang: the recursive-descent parser (parse,   *)
(* parseExpression, parseApply, skipSpace) as operators over source text,  *)
(* and the tree-walking evaluator (evaluate, specialForms, topEnv, run) as *)
(* a machine that makes one evaluate call or one return per step.          *)
(***************************************************************************)
EXTENDS Integers, Sequences, FiniteSets, TLC

\* ------------------------------------------------------------------ bounds
\* Longest source text typed in SpecParse.
MaxLen == 5
\* Number of run() calls in a behaviour of Spec.
MaxRuns == 2

\* ------------------------------------------------------- character classes
\* \s of the regular expressions (the characters a TLA+ string can hold).
Whitespace == {" ", "\t", "\n", "\r", "\f"}
\* What '.' does not match, so where a '#' comment ends.
LineTerminators == {"\n", "\r"}
Digits == {"0", "1", "2", "3", "4", "5", "6", "7", "8", "9"}
\* \w, which decides the \b of the number rule.
WordChars ==
  Digits \cup {"_"} \cup
  {"a", "b", "c", "d", "e", "f", "g", "h", "i", "j", "k", "l", "m",
   "n", "o", "p", "q", "r", "s", "t", "u", "v", "w", "x", "y", "z"} \cup
  {"A", "B", "C", "D", "E", "F", "G", "H", "I", "J", "K", "L", "M",
   "N", "O", "P", "Q", "R", "S", "T", "U", "V", "W", "X", "Y", "Z"}
\* The characters the word rule [^\s(),"] excludes.
NonWord == Whitespace \cup {"(", ")", ",", "\""}

\* string.slice(n)
Slice(s, n) == SubSeq(s, n + 1, Len(s))
\* string[0], undefined on the empty string
First(s) == IF Len(s) = 0 THEN "undefined" ELSE Head(s)

\* ------------------------------------------------------------------ values
NumV(n) == [t |-> "num", v |-> n]
StrV(s) == [t |-> "str", v |-> s]
BoolV(b) == [t |-> "bool", v |-> b]
ArrV(a) == [t |-> "arr", v |-> a]
NativeV(n) == [t |-> "native", v |-> n]
FunV(names, body, env) ==
  [t |-> "fun", v |-> [argNames |-> names, body |-> body, env |-> env]]
Undefined == [t |-> "undefined", v |-> 0]
NaN == [t |-> "nan", v |-> 0]
\* a !== false
IsFalse(a) == a.t = "bool" /\ a.v = FALSE

\* ------------------------------------------------------------- expressions
ValueExpr(v) == [type |-> "value", value |-> v]
WordExpr(n) == [type |-> "word", name |-> n]
ApplyExpr(op, args) == [type |-> "apply", operator |-> op, args |-> args]

\* ------------------------------------------------------------------ parser
\* The end of a '#' comment: '.*' stops before a line terminator.
RECURSIVE SkipComment(_)
SkipComment(s) ==
  IF Len(s) = 0 \/ Head(s) \in LineTerminators THEN s
  ELSE SkipComment(Tail(s))

\* (A skipSpace that knows white space only and no comment.)
RECURSIVE skipSpaceOnly(_)
skipSpaceOnly(s) ==
  IF Len(s) = 0 THEN s
  ELSE IF Head(s) \in Whitespace THEN skipSpaceOnly(Tail(s))
  ELSE s

\* skipSpace: the longest prefix matching (\s|#.*)* is dropped.
RECURSIVE skipSpace(_)
skipSpace(s) ==
  IF Len(s) = 0 THEN s
  ELSE IF Head(s) \in Whitespace THEN skipSpace(Tail(s))
  ELSE IF Head(s) = "#" THEN skipSpace(SkipComment(Tail(s)))
  ELSE s

\* Length of the longest prefix of s whose characters are all in / not in cls.
RECURSIVE RunIn(_, _)
RunIn(s, cls) ==
  IF Len(s) = 0 \/ Head(s) \notin cls THEN 0 ELSE 1 + RunIn(Tail(s), cls)
RECURSIVE RunNotIn(_, _)
RunNotIn(s, cls) ==
  IF Len(s) = 0 \/ Head(s) \in cls THEN 0 ELSE 1 + RunNotIn(Tail(s), cls)

\* /^"([^"]*)"/ : the length of the match, 0 when there is none.
MatchString(s) ==
  IF First(s) # "\"" THEN 0
  ELSE LET n == RunNotIn(Tail(s), {"\""})
       IN IF n + 1 < Len(s) THEN n + 2 ELSE 0

\* /^\d+\b/ : the digits must end at a word boundary, so the longest run of
\* digits matches when the end of the text or a non-\w character follows it.
MatchNumber(s) ==
  LET n == RunIn(s, Digits)
  IN IF n > 0 /\ (n = Len(s) \/ SubSeq(s, n + 1, n + 1) \notin WordChars)
     THEN n ELSE 0

\* /^[^\s(),"]+/ : the length of the match, 0 when there is none.
MatchWord(s) == RunNotIn(s, NonWord)

DigitValue(c) ==
  CASE c = "0" -> 0 [] c = "1" -> 1 [] c = "2" -> 2 [] c = "3" -> 3
    [] c = "4" -> 4 [] c = "5" -> 5 [] c = "6" -> 6 [] c = "7" -> 7
    [] c = "8" -> 8 [] c = "9" -> 9

\* Number(match[0]) of a run of digits.
RECURSIVE ToNumber(_, _)
ToNumber(s, acc) ==
  IF Len(s) = 0 THEN acc
  ELSE ToNumber(Tail(s), 10 * acc + DigitValue(Head(s)))

\* What a parsing function hands back: {expr, rest}, or the error it throws.
Parsed(e, r) == [ok |-> TRUE, expr |-> e, rest |-> r]
Thrown(kind, msg) == [ok |-> FALSE, error |-> kind, message |-> msg]

RECURSIVE parseExpression(_), parseApply(_, _), ParseArgs(_, _, _)

parseExpression(text) ==
  LET program == skipSpace(text)
      str == MatchString(program)
      num == MatchNumber(program)
      word == MatchWord(program)
  IN IF str > 0
       THEN parseApply(ValueExpr(StrV(SubSeq(program, 2, str - 1))),
                       Slice(program, str))
     ELSE IF num > 0
       THEN parseApply(ValueExpr(NumV(ToNumber(SubSeq(program, 1, num), 0))),
                       Slice(program, num))
     ELSE IF word > 0
       THEN parseApply(WordExpr(SubSeq(program, 1, word)),
                       Slice(program, word))
     ELSE Thrown("SyntaxError", "Unexected syntax: " \o program)

parseApply(expr, text) ==
  LET program == skipSpace(text)
  IN IF First(program) # "("
       THEN Parsed(expr, program)
     ELSE ParseArgs(expr, <<>>, skipSpace(Slice(program, 1)))

\* The while loop of parseApply: program is what follows the arguments read
\* so far.
ParseArgs(operator, args, program) ==
  IF First(program) = ")"
    THEN parseApply(ApplyExpr(operator, args), Slice(program, 1))
  ELSE LET arg == parseExpression(program)
       IN IF ~arg.ok THEN arg
          ELSE LET after == skipSpace(arg.rest)
               IN IF First(after) = ","
                    THEN ParseArgs(operator, Append(args, arg.expr),
                                   skipSpace(Slice(after, 1)))
                  ELSE IF First(after) # ")"
                    THEN Thrown("SyntaxError", "Expected ',' or ')'")
                  ELSE ParseArgs(operator, Append(args, arg.expr), after)

\* (A parse that did not look at what follows the expression.)
parseUnchecked(program) == parseExpression(program)

parse(program) ==
  LET result == parseExpression(program)
  IN IF ~result.ok THEN result
     ELSE IF Len(skipSpace(result.rest)) > 0
       THEN Thrown("SyntaxError", "Unexpected text after program")
     ELSE Parsed(result.expr, result.rest)

\* ------------------------------------------------------------ syntax trees
\* The node of expr at path: 0 steps to the operator, i >= 1 to args[i].
RECURSIVE NodeAt(_, _)
NodeAt(expr, path) ==
  IF path = <<>> THEN expr
  ELSE IF Head(path) = 0 THEN NodeAt(expr.operator, Tail(path))
  ELSE NodeAt(expr.args[Head(path)], Tail(path))

RECURSIVE Paths(_)
Paths(expr) ==
  IF expr.type # "apply" THEN {<<>>}
  ELSE {<<>>} \cup {<<0>> \o p : p \in Paths(expr.operator)}
       \cup UNION {{<<i>> \o p : p \in Paths(expr.args[i])} :
                   i \in 1 .. Len(expr.args)}

\* ------------------------------------------------------------ environments
\* An environment object: its own properties and its prototype (0 is null).
Frame(parent, vars) == [parent |-> parent, vars |-> vars]
NoVars == [n \in {} |-> Undefined]
Bind(own, name, val) == (name :> val) @@ own

\* Object.hasOwnProperty.call(env, name)
HasOwn(fr, env, name) == name \in DOMAIN fr[env].vars

\* name in env: own or inherited along the prototype chain, the root included.
RECURSIVE In(_, _, _)
In(fr, env, name) ==
  IF env = 0 THEN FALSE
  ELSE IF HasOwn(fr, env, name) THEN TRUE
  ELSE In(fr, fr[env].parent, name)

\* env[name] for a name that is in env.
RECURSIVE Get(_, _, _)
Get(fr, env, name) ==
  IF HasOwn(fr, env, name) THEN fr[env].vars[name]
  ELSE Get(fr, fr[env].parent, name)

\* env[name] = val: an own property of env is written or created (every
\* inherited property is a writable data property).
Put(fr, env, name, val) ==
  [fr EXCEPT ![env].vars = Bind(@, name, val)]

\* ----------------------------------------------------------------- topEnv
SpecialFormNames == {"if", "while", "do", "define", "fun", "set"}
BinaryOps == {"+", "-", "*", "/", "==", "<", ">"}
NativeNames == BinaryOps \cup {"print", "array", "length", "element"}

TopEnvVars ==
  [n \in {"true", "false"} \cup NativeNames |->
     IF n = "true" THEN BoolV(TRUE)
     ELSE IF n = "false" THEN BoolV(FALSE)
     ELSE NativeV(n)]

\* Index of the global environment in frames.
TopEnv == 1

\* A value of the host that this model does not represent (a fraction, the
\* text of a function, a comparison of texts, ...). ModelledOnly states that
\* no program of the model computes one.
HostValue == [t |-> "host", v |-> 0]
Infinity(sign) == [t |-> "inf", v |-> sign]

\* arguments[i - 1]
Arg(vals, i) == IF i <= Len(vals) THEN vals[i] ELSE Undefined

Numeric == {"num", "bool", "undefined", "nan"}
\* ToNumber of a Numeric value that is not NaN.
IsNaN(a) == a.t \in {"undefined", "nan"}
Num(a) == IF a.t = "bool" THEN (IF a.v THEN 1 ELSE 0) ELSE a.v
Abs(n) == IF n < 0 THEN -n ELSE n

\* a / b of two numbers.
Divide(x, y) ==
  IF y = 0 THEN (IF x = 0 THEN NaN ELSE Infinity(IF x > 0 THEN 1 ELSE -1))
  ELSE IF Abs(x) % Abs(y) # 0 THEN HostValue
  ELSE NumV((IF (x < 0) = (y < 0) THEN 1 ELSE -1) * (Abs(x) \div Abs(y)))

\* new Function("a, b", "return a " + op + " b;")
Binary(op, a, b) ==
  IF op = "=="
    THEN IF a.t = b.t /\ a.t \in {"num", "bool", "str"} THEN BoolV(a.v = b.v)
         ELSE IF a.t = "undefined" /\ b.t = "undefined" THEN BoolV(TRUE)
         ELSE IF a.t \in Numeric \cup {"str"} /\ b.t \in Numeric \cup {"str"}
                 /\ ("undefined" \in {a.t, b.t} \/ "nan" \in {a.t, b.t})
           THEN BoolV(FALSE)
         ELSE IF a.t \in {"num", "bool"} /\ b.t \in {"num", "bool"}
           THEN BoolV(Num(a) = Num(b))
         ELSE HostValue
  ELSE IF op = "+" /\ a.t = "str" /\ b.t = "str" THEN StrV(a.v \o b.v)
  ELSE IF op = "+" /\ a.t = "str" /\ b.t = "undefined"
    THEN StrV(a.v \o "undefined")
  ELSE IF a.t \notin Numeric \/ b.t \notin Numeric THEN HostValue
  ELSE IF op \in {"<", ">"}
    THEN IF IsNaN(a) \/ IsNaN(b) THEN BoolV(FALSE)
         ELSE IF op = "<" THEN BoolV(Num(a) < Num(b))
         ELSE BoolV(Num(a) > Num(b))
  ELSE IF IsNaN(a) \/ IsNaN(b) THEN NaN
  ELSE IF op = "+" THEN NumV(Num(a) + Num(b))
  ELSE IF op = "-" THEN NumV(Num(a) - Num(b))
  ELSE IF op = "*" THEN NumV(Num(a) * Num(b))
  ELSE Divide(Num(a), Num(b))

\* The length property of a function: its number of declared parameters.
FunctionLength(f) ==
  IF f.t = "fun" THEN 0
  ELSE IF f.v \in BinaryOps \cup {"element"} THEN 2
  ELSE IF f.v \in {"print", "length"} THEN 1
  ELSE 0

\* A native of topEnv applied to vals: the value it returns, or the error the
\* host throws inside it. print's console.log is the action's part.
Returned(v) == [ok |-> TRUE, val |-> v]
CallNative(name, vals) ==
  LET a == Arg(vals, 1)
      b == Arg(vals, 2)
  IN IF name \in BinaryOps THEN Returned(Binary(name, a, b))
     ELSE IF name = "print" THEN Returned(a)
     ELSE IF name = "array" THEN Returned(ArrV(vals))
     ELSE IF name = "length"
       THEN IF a.t = "undefined"
              THEN Thrown("TypeError", "Cannot read property of undefined")
            ELSE IF a.t \in {"arr", "str"} THEN Returned(NumV(Len(a.v)))
            ELSE IF a.t \in {"fun", "native"}
              THEN Returned(NumV(FunctionLength(a)))
            ELSE IF a.t \in {"num", "bool", "nan", "inf"}
              THEN Returned(Undefined)
            ELSE Returned(HostValue)
     ELSE \* element
       IF a.t = "undefined"
         THEN Thrown("TypeError", "Cannot read property of undefined")
       ELSE IF b.t = "num"
         THEN IF a.t = "arr" /\ b.v \in 0 .. Len(a.v) - 1
                THEN Returned(a.v[b.v + 1])
              ELSE IF a.t = "str" /\ b.v \in 0 .. Len(a.v) - 1
                THEN Returned(StrV(SubSeq(a.v, b.v + 1, b.v + 1)))
              ELSE IF a.t = "host" THEN Returned(HostValue)
              ELSE Returned(Undefined)
       ELSE Returned(HostValue)

\* ---------------------------------------------------------------- programs
\* The programs of the source's own tests.
BooleanTest == "if(true, false, true)"
SumProgram ==
  "do(define(total,0),\n   define(count, 1),\n   while(<(count,11),\n"
  \o "         do(define(total, +(total, count)),\n"
  \o "            define(count, +(count, 1)))),\n   print(total))"
PlusOneTest == "do(define(plusOne, fun(a, +(a, 1))),\n   print(plusOne(10)))"
PowTest ==
  "do(define(pow, fun(base, exp,\n       if(==(exp, 0),\n         1,\n"
  \o "         *(base, pow(base, -(exp, 1)))))),\n   print(pow(2,10)))"
ScopeTest == "do(define(f, fun(a, fun(b, +(a, b)))),\n   print(f(4)(5)))"
ArrayTest ==
  "do(define(sum, fun(array,\n     do(define(i, 0),\n        define(sum, 0),\n"
  \o "        while(<(i, length(array)),\n"
  \o "          do(define(sum, +(sum, element(array, i))),\n"
  \o "             define(i, +(i, 1)))),\n        sum))),\n"
  \o "   print(sum(array(1, 2, 3))))"
SetTest ==
  "do( define(x, 4),\n    define(setx, fun(val, set(x, val))),\n"
  \o "    setx(50),\n    print(x)   )"
SetUnknownTest == "set(quux, true)"

SourceTests ==
  {BooleanTest, SumProgram, PlusOneTest, PowTest, ScopeTest, ArrayTest,
   SetTest, SetUnknownTest}

\* set on names of the root frame, of an enclosing frame, of a shadowing frame.
SetBuiltin == "set(print, 5)"
SetTrue == "set(true, false)"
SetBuiltinInFun == "do(define(f, fun(set(true, 0))), f())"
SetShadowed ==
  "do(define(x, 1), define(f, fun(x, do(set(x, 2), x))), print(f(5)), x)"
SetOuter ==
  "do(define(x, 1), define(g, fun(do(define(y, 2), fun(v, set(x, v))))),"
  \o " g()(7), x)"
SetOverBuiltin == "do(define(print, 1), set(print, 2), print)"
SetPrograms ==
  {SetBuiltin, SetTrue, SetBuiltinInFun, SetShadowed, SetOuter,
   SetOverBuiltin, "set(x)", "set(5, 1)", "do(define(x, 1), set(x, nope))"}

\* define in the run's frame and in the frame of a call.
DefineInFun == "do(define(f, fun(define(y, 1))), print(f()), y)"
DefineOverBuiltin == "do(define(true, 5), true)"
DefineShadow ==
  "do(define(x, 1), define(f, fun(do(define(x, 2), x))), +(f(), x))"
DefineSelf == "define(x, x)"
DefineTwice == "do(define(x, 1), define(x, +(x, 1)), x)"
DefinePrograms ==
  {DefineInFun, DefineOverBuiltin, DefineShadow, DefineSelf, DefineTwice,
   "define(x)", "define(5, 1)", "define(x, 1, 2)"}

\* fun: the defining scope, the frame of each call, the parameter list.
LexicalScope ==
  "do(define(a, 1), define(f, fun(a)), define(g, fun(a, f())), g(2))"
RepeatedParam == "fun(a, a, a)(1, 2)"
Counter ==
  "do(define(mk, fun(n, fun(do(set(n, +(n, 1)), n)))), define(c, mk(0)),"
  \o " define(d, mk(10)), c(), d(), +(c(), d()))"
FunPrograms ==
  {LexicalScope, RepeatedParam, Counter, "fun(a, a)()", "fun(a, a)(1, 2)",
   "fun()", "fun(1, a)", "fun(5)()", "fun(a, b, -(a, b))(7, 2)"}

\* The binary natives with two arguments and with another number of them.
ArityPrograms ==
  {"+(1)", "+(1, 2, 3)", "==()", "<(1)", "-()", "*(2, 3, 4)", "/(6)",
   ">(2, 1, nope)", "/(6, 3)", "/(1, 0)", "==(1, 1)", "+(\"a\", \"b\")",
   "<(1, 2)", "-(1, 2)"}

\* if: each kind of condition value, branches that print or fail.
IfZero == "if(0, 1, 2)"
IfEmptyText == "if(\"\", 1, 2)"
IfEmptyArray == "if(array(), 1, 2)"
IfUntakenFails == "if(true, 1, nope)"
IfUntakenPrints == "if(false, print(1), 2)"
IfPrograms ==
  {IfZero, IfEmptyText, IfEmptyArray, IfUntakenFails, IfUntakenPrints,
   "if(true, 1, 2)", "if(false, 1, 2)", "if(false, nope, 2)",
   "if(true, print(1), print(2))", "if(nope, 1, 2)", "if(true, 1)",
   "if(print(1))", "if()", "if(true, 1, 2, print(3))",
   "do(define(x, 1), if(==(x, 1), set(x, 2), define(y, 3)), x)"}

\* while: conditions that are false at once, other than false, or fail.
WhileNever == "while(false, print(1))"
WhileZero ==
  "do(define(i, 0), while(if(<(i, 2), 0, false), define(i, +(i, 1))), i)"
WhileEmptyText ==
  "do(define(i, 0), while(if(<(i, 2), \"\", false), define(i, +(i, 1))), i)"
WhileBodyValue == "do(define(i, 0), while(<(i, 1), define(i, 5)))"
WhilePrograms ==
  {WhileNever, WhileZero, WhileEmptyText, WhileBodyValue, "while(true)",
   "while()", "while(print(1), 2, 3)", "while(nope, 1)",
   "do(define(i, 0), while(<(i, 2), do(print(i), set(i, +(i, 1)))))"}

\* Applications: operators that are no functions, arguments that print.
ApplyNumber == "5(print(1))"
ApplyPrinted == "print(1)(print(2))"
ApplyInOrder == "array(print(1), print(2), print(3))"
ApplyPrograms ==
  {ApplyNumber, ApplyPrinted, ApplyInOrder, "\"a\"()", "true(1)",
   "nope(print(1))", "-(print(7), print(2))", "print()", "length()",
   "length(array(1,2,3))", "element(array(1,2,3), 1)",
   "element(array(1), 4)", "length(\"abc\")", "print(nope, print(1))",
   "do(define(f, fun(x, y, y)), f(print(1), print(2)))", "do()"}

\* Programs that bind the names of the special forms.
OverrideIf == "do(define(if, fun(a, b, c, 99)), if(true, 1, 2))"
OverrideParam == "fun(if, if(false, 1, if))(7)"
OverrideSet == "do(define(set, 1), set(set, 2), set)"
OverridePrograms ==
  {OverrideIf, OverrideParam, OverrideSet, "do(define(do, 5), do(1, 2))",
   "do(define(define, 3), define(x, define), x)",
   "do(define(while, 0), while(false, 1))",
   "do(define(fun, 1), fun(a, a)(fun))", "\"if\"(true, 1, 2)",
   "do(define(f, fun(a, b, c, a)), define(if, f), if(false, 1, 2))"}

Programs ==
  SourceTests \cup SetPrograms \cup DefinePrograms \cup FunPrograms
  \cup ArityPrograms \cup IfPrograms \cup WhilePrograms \cup ApplyPrograms
  \cup OverridePrograms

\* ------------------------------------------------------------------- state
VARIABLES
  src,      \* the program text: typed so far, or given to run()
  tree,     \* what parse(src) gave
  ctl,      \* where the evaluator is: calling evaluate, returning, finished
  stack,    \* the pending calls of evaluate's callers, innermost last
  frames,   \* the environment objects; frames[TopEnv] is topEnv
  printed,  \* what the current run gave console.log
  count,    \* per node of tree, the evaluate calls made on it in this run
  result,   \* what run() returned or threw
  runs,     \* run() calls so far
  earlier   \* history: the source, result and output of the runs recorded

vars ==
  <<src, tree, ctl, stack, frames, printed, count, result, runs, earlier>>

NotParsed == [ok |-> FALSE, error |-> "none", message |-> ""]

Idle == [m |-> "idle", path |-> <<>>, env |-> 0, val |-> Undefined]
Done == [m |-> "done", path |-> <<>>, env |-> 0, val |-> Undefined]
\* evaluate(node at path, env) is being called
Eval(path, env) == [m |-> "eval", path |-> path, env |-> env, val |-> Undefined]
\* an evaluate call returns val to the innermost pending caller
Ret(val) == [m |-> "ret", path |-> <<>>, env |-> 0, val |-> val]

NoResult == [kind |-> "none", val |-> Undefined, error |-> "", message |-> ""]
ValueResult(v) == [kind |-> "value", val |-> v, error |-> "", message |-> ""]
ErrorResult(e, msg) ==
  [kind |-> "error", val |-> Undefined, error |-> e, message |-> msg]

\* A pending caller: which handler waits (kind), for which apply node (path)
\* in which env, and the handler's locals (idx, vals, op).
Pending(kind, path, env, idx, vals, op) ==
  [kind |-> kind, path |-> path, env |-> env, idx |-> idx, vals |-> vals,
   op |-> op]
Waiting(kind, path, env) == Pending(kind, path, env, 0, <<>>, Undefined)

Top == stack[Len(stack)]
Pop == SubSeq(stack, 1, Len(stack) - 1)
Push(k) == Append(stack, k)
Replace(k) == Append(Pop, k)

Returning(kind) == ctl.m = "ret" /\ Len(stack) > 0 /\ Top.kind = kind

\* The nodes the evaluator is concerned with.
Node == NodeAt(tree.expr, ctl.path)
TopNode == NodeAt(tree.expr, Top.path)
Child(path, i) == Append(path, i)

Init ==
  /\ src = ""
  /\ tree = NotParsed
  /\ ctl = Idle
  /\ stack = <<>>
  /\ frames = <<Frame(0, TopEnvVars)>>
  /\ printed = <<>>
  /\ count = [p \in {<<>>} |-> 0]
  /\ result = NoResult
  /\ runs = 0
  /\ earlier = {}

\* One step of the evaluator: the next control, pending calls, environments
\* and output. A step that calls evaluate counts the call on its node.
Step(c, st, fr, out) ==
  /\ ctl' = c
  /\ stack' = st
  /\ frames' = fr
  /\ printed' = out
  /\ count' = IF c.m = "eval" THEN [count EXCEPT ![c.path] = @ + 1] ELSE count
  /\ result' = result
  /\ UNCHANGED <<src, tree, runs, earlier>>

\* throw: no handler catches, so every pending call is abandoned and run()
\* throws the error to its caller.
Throw(e, msg) ==
  /\ ctl' = Done
  /\ stack' = <<>>
  /\ result' = ErrorResult(e, msg)
  /\ UNCHANGED <<src, tree, frames, printed, count, runs, earlier>>

\* ------------------------------------------------------------------- run()
\* run(program): a fresh child of topEnv, parse, evaluate.
Start(program) ==
  /\ ctl.m \in {"idle", "done"}
  /\ runs < MaxRuns
  /\ LET parsed == parse(program)
     IN /\ src' = program
        /\ tree' = parsed
        /\ runs' = runs + 1
        /\ frames' = <<frames[TopEnv], Frame(TopEnv, NoVars)>>
        /\ printed' = <<>>
        /\ stack' = <<>>
        /\ IF parsed.ok
             THEN /\ ctl' = Eval(<<>>, 2)
                  /\ count' = [p \in Paths(parsed.expr) |->
                                 IF p = <<>> THEN 1 ELSE 0]
                  /\ result' = NoResult
             ELSE /\ ctl' = Done
                  /\ count' = [p \in {<<>>} |-> 0]
                  /\ result' = ErrorResult(parsed.error, parsed.message)

Run(program) == Start(program) /\ UNCHANGED earlier

\* run() returns what the outermost evaluate call returned.
Finish ==
  /\ ctl.m = "ret"
  /\ stack = <<>>
  /\ ctl' = Done
  /\ result' = ValueResult(ctl.val)
  /\ UNCHANGED <<src, tree, stack, frames, printed, count, runs, earlier>>

\* ---------------------------------------------------------------- evaluate
\* case "value"
EvalValue ==
  /\ ctl.m = "eval"
  /\ Node.type = "value"
  /\ Step(Ret(Node.value), stack, frames, printed)

\* case "word"
EvalWord ==
  /\ ctl.m = "eval"
  /\ Node.type = "word"
  /\ IF In(frames, ctl.env, Node.name)
       THEN Step(Ret(Get(frames, ctl.env, Node.name)), stack, frames, printed)
     ELSE Throw("ReferenceError", "Undefined variable: " \o Node.name)

\* (A dispatch that let a binding of the name in env take precedence.)
DispatchesUnlessBound ==
  /\ ctl.m = "eval"
  /\ Node.type = "apply"
  /\ Node.operator.type = "word"
  /\ Node.operator.name \in SpecialFormNames
  /\ ~In(frames, ctl.env, Node.operator.name)

\* expr.operator.type == "word" && expr.operator.name in specialForms
DispatchesSpecial ==
  /\ ctl.m = "eval"
  /\ Node.type = "apply"
  /\ Node.operator.type = "word"
  /\ Node.operator.name \in SpecialFormNames

Special(name) == DispatchesSpecial /\ Node.operator.name = name

\* case "apply", no special form: the operator is evaluated first.
EvalApply ==
  /\ ctl.m = "eval"
  /\ Node.type = "apply"
  /\ ~DispatchesSpecial
  /\ Step(Eval(Child(ctl.path, 0), ctl.env),
          Push(Waiting("operator", ctl.path, ctl.env)), frames, printed)

\* (An application without the typeof check.)
IsFunctionUnchecked(v) == TRUE

\* typeof op == "function"
IsFunction(v) == v.t \in {"fun", "native"}

\* for (i ...) localEnv[argNames[i]] = arguments[i]
RECURSIVE BindArgs(_, _, _)
BindArgs(own, names, vals) ==
  IF names = <<>> THEN own
  ELSE BindArgs(Bind(own, Head(names), Head(vals)), Tail(names), Tail(vals))

\* (An application that held every function to its declared parameters.)
WrongArityOfAny(fn, vals) ==
  IF fn.t = "fun" THEN Len(vals) # Len(fn.v.argNames)
  ELSE Len(vals) # FunctionLength(fn) /\ fn.v # "array"

\* arguments.length != argNames.length, the check only a fun makes
WrongArity(fn, vals) == fn.t = "fun" /\ Len(vals) # Len(fn.v.argNames)

\* (A call whose frame hung off the caller's environment.)
LocalEnvOfCaller(fn, callerEnv) == callerEnv

\* Object.create(env) of a call: the prototype of localEnv
LocalEnvParent(fn, callerEnv) == fn.v.env

\* op.apply(null, vals) at the apply node site, whose pending callers are st.
Invoke(fn, vals, site, st) ==
  IF fn.t \notin {"fun", "native"}
    THEN Throw("TypeError", "op.apply is not a function")
  ELSE IF WrongArity(fn, vals)
    THEN Throw("TypeError", "Wrong number of arguments")
  ELSE IF fn.t = "native"
    THEN LET r == CallNative(fn.v, vals)
         IN IF r.ok
              THEN Step(Ret(r.val), st, frames,
                        IF fn.v = "print" THEN Append(printed, Arg(vals, 1))
                        ELSE printed)
            ELSE Throw(r.error, r.message)
  ELSE LET localEnv == Len(frames) + 1
       IN Step(Eval(fn.v.body, localEnv),
               Append(st, Waiting("call", site.path, localEnv)),
               Append(frames, Frame(LocalEnvParent(fn, site.env),
                                    BindArgs(NoVars, fn.v.argNames, vals))),
               printed)

\* The operator's value is back: it must be a function; then the arguments
\* are mapped from the first on (or, with none, the function is applied).
ApplyOperator ==
  /\ Returning("operator")
  /\ IF ~IsFunction(ctl.val)
       THEN Throw("TypeError", "Applying a non-function.")
     ELSE IF Len(TopNode.args) = 0
       THEN Invoke(ctl.val, <<>>, Top, Pop)
     ELSE Step(Eval(Child(Top.path, 1), Top.env),
               Replace(Pending("args", Top.path, Top.env, 1, <<>>, ctl.val)),
               frames, printed)

\* An argument's value is back: the next argument, or the application.
ApplyArg ==
  /\ Returning("args")
  /\ LET vals == Append(Top.vals, ctl.val)
     IN IF Top.idx < Len(TopNode.args)
          THEN Step(Eval(Child(Top.path, Top.idx + 1), Top.env),
                    Replace(Pending("args", Top.path, Top.env, Top.idx + 1,
                                    vals, Top.op)),
                    frames, printed)
        ELSE Invoke(Top.op, vals, Top, Pop)

\* The body of a fun is back: the call returns its value.
FunReturn ==
  /\ Returning("call")
  /\ Step(Ret(ctl.val), Pop, frames, printed)

\* ----------------------------------------------------------- specialForms
SyntaxError(msg) == Throw("SyntaxError", msg)

\* The host's own notion of a false condition.
Falsy(v) ==
  \/ IsFalse(v)
  \/ v.t \in {"undefined", "nan"}
  \/ (v.t = "num" /\ v.v = 0)
  \/ (v.t = "str" /\ v.v = "")

\* (An if that tested the condition as the host's if does.)
IfBranchTruthy(v) == IF ~Falsy(v) THEN 2 ELSE 3

\* if: which argument is evaluated once the condition's value v is known
IfBranch(v) == IF ~IsFalse(v) THEN 2 ELSE 3

IfForm ==
  /\ Special("if")
  /\ IF Len(Node.args) # 3
       THEN SyntaxError("Bad number of args to if")
     ELSE Step(Eval(Child(ctl.path, 1), ctl.env),
               Push(Waiting("ifCond", ctl.path, ctl.env)), frames, printed)

IfCond ==
  /\ Returning("ifCond")
  /\ Step(Eval(Child(Top.path, IfBranch(ctl.val)), Top.env),
          Replace(Waiting("ifBranch", Top.path, Top.env)), frames, printed)

IfReturn ==
  /\ Returning("ifBranch")
  /\ Step(Ret(ctl.val), Pop, frames, printed)

\* (A while that tested the condition as the host's while does.)
WhileContinuesTruthy(v) == ~Falsy(v)

\* while: whether the body runs once the condition's value v is known
WhileContinues(v) == ~IsFalse(v)
\* what the while form returns when its loop ends
WhileResult == BoolV(FALSE)

WhileForm ==
  /\ Special("while")
  /\ IF Len(Node.args) # 2
       THEN SyntaxError("Bad number of args to while")
     ELSE Step(Eval(Child(ctl.path, 1), ctl.env),
               Push(Waiting("whileCond", ctl.path, ctl.env)), frames, printed)

WhileCond ==
  /\ Returning("whileCond")
  /\ IF WhileContinues(ctl.val)
       THEN Step(Eval(Child(Top.path, 2), Top.env),
                 Replace(Waiting("whileBody", Top.path, Top.env)),
                 frames, printed)
     ELSE Step(Ret(WhileResult), Pop, frames, printed)

WhileBody ==
  /\ Returning("whileBody")
  /\ Step(Eval(Child(Top.path, 1), Top.env),
          Replace(Waiting("whileCond", Top.path, Top.env)), frames, printed)

DoForm ==
  /\ Special("do")
  /\ IF Len(Node.args) = 0
       THEN Step(Ret(BoolV(FALSE)), stack, frames, printed)
     ELSE Step(Eval(Child(ctl.path, 1), ctl.env),
               Push(Pending("do", ctl.path, ctl.env, 1, <<>>, Undefined)),
               frames, printed)

DoNext ==
  /\ Returning("do")
  /\ IF Top.idx < Len(TopNode.args)
       THEN Step(Eval(Child(Top.path, Top.idx + 1), Top.env),
                 Replace(Pending("do", Top.path, Top.env, Top.idx + 1, <<>>,
                                 Undefined)),
                 frames, printed)
     ELSE Step(Ret(ctl.val), Pop, frames, printed)

\* args.length != 2 || args[0].type != "word"
BadUse(args) == Len(args) # 2 \/ args[1].type # "word"

\* (A define that assigned where the name is found, as set does.)
RECURSIVE DefineTargetFound(_, _, _)
DefineTargetFound(fr, env, name) ==
  IF ~In(fr, env, name) \/ HasOwn(fr, env, name) THEN env
  ELSE DefineTargetFound(fr, fr[env].parent, name)

\* define: the environment object that env[name] = value writes to
DefineTarget(fr, env, name) == env

DefineForm ==
  /\ Special("define")
  /\ IF BadUse(Node.args)
       THEN SyntaxError("Bad use of define")
     ELSE Step(Eval(Child(ctl.path, 2), ctl.env),
               Push(Waiting("define", ctl.path, ctl.env)), frames, printed)

DefineBind ==
  /\ Returning("define")
  /\ LET name == TopNode.args[1].name
     IN Step(Ret(ctl.val), Pop,
             Put(frames, DefineTarget(frames, Top.env, name), name, ctl.val),
             printed)

\* (A set that assigned to env itself, as define does.)
SetTargetCurrent(fr, env, name) == env

\* (A loop that examines every object of the chain, the root included.)
RECURSIVE SetTargetAll(_, _, _)
SetTargetAll(fr, env, name) ==
  IF env = 0 THEN 0
  ELSE IF HasOwn(fr, env, name) THEN env
  ELSE SetTargetAll(fr, fr[env].parent, name)

\* set: the loop over the prototype chain; the environment object that owns
\* name, 0 when the loop ends without one. The loop ends at the object whose
\* prototype is null, which it does not examine.
RECURSIVE SetTarget(_, _, _)
SetTarget(fr, env, name) ==
  IF fr[env].parent = 0 THEN 0
  ELSE IF HasOwn(fr, env, name) THEN env
  ELSE SetTarget(fr, fr[env].parent, name)

SetForm ==
  /\ Special("set")
  /\ IF BadUse(Node.args)
       THEN SyntaxError("Bad use of set")
     ELSE Step(Eval(Child(ctl.path, 2), ctl.env),
               Push(Waiting("set", ctl.path, ctl.env)), frames, printed)

SetAssign ==
  /\ Returning("set")
  /\ LET toSet == TopNode.args[1].name
         owner == SetTarget(frames, Top.env, toSet)
     IN IF owner # 0
          THEN Step(Ret(ctl.val), Pop, Put(frames, owner, toSet, ctl.val),
                    printed)
        ELSE Throw("ReferenceError", "Unknown variable: " \o toSet)

\* fun: the environment the function value keeps for its calls
CapturedEnv(env) == env

FunForm ==
  /\ Special("fun")
  /\ LET args == Node.args
         n == Len(args)
     IN IF n = 0
          THEN SyntaxError("Functions need a body")
        ELSE IF \E i \in 1 .. n - 1 : args[i].type # "word"
          THEN SyntaxError("Arg names must be words")
        ELSE Step(Ret(FunV([i \in 1 .. n - 1 |-> args[i].name],
                           Child(ctl.path, n), CapturedEnv(ctl.env))),
                  stack, frames, printed)

\* ----------------------------------------------------------- specifications
Evaluate ==
  \/ EvalValue \/ EvalWord \/ EvalApply \/ ApplyOperator \/ ApplyArg
  \/ FunReturn \/ IfForm \/ IfCond \/ IfReturn \/ WhileForm \/ WhileCond
  \/ WhileBody \/ DoForm \/ DoNext \/ DefineForm \/ DefineBind \/ SetForm
  \/ SetAssign \/ FunForm

Next ==
  \/ \E program \in Programs : Run(program)
  \/ Evaluate
  \/ Finish

Spec == Init /\ [][Next]_vars

\* run() called again and again, with what each run gave kept on record.
ReadX == "x"
SetX == "set(x, 5)"
IsolationPrograms ==
  {SetTest, ReadX, SetX, DefineOverBuiltin, BooleanTest, SetOverBuiltin,
   SetBuiltin, WhileBodyValue}

Record == [src |-> src, result |-> result, printed |-> printed]

RunAgain(program) ==
  /\ Start(program)
  /\ earlier' = IF ctl.m = "done" THEN earlier \cup {Record} ELSE earlier

NextRuns ==
  \/ \E program \in IsolationPrograms : RunAgain(program)
  \/ Evaluate
  \/ Finish

SpecRuns == Init /\ [][NextRuns]_vars

\* Every value the programs of the model compute is one the model represents.
RECURSIVE IsModelled(_)
IsModelled(v) ==
  /\ v.t # "host"
  /\ v.t = "arr" => \A i \in 1 .. Len(v.v) : IsModelled(v.v[i])
ModelledOnly == IsModelled(ctl.val) /\ IsModelled(result.val)

\* The parser alone, on every text of at most MaxLen characters of Alphabet:
\* a letter, a digit, the punctuation of the grammar, a quote, white space
\* within a line and at its end, and the comment sign.
Alphabet == {"a", "1", "(", ")", ",", "\"", " ", "\n", "#"}

Type(c) ==
  /\ ctl.m = "idle"
  /\ tree = NotParsed
  /\ Len(src) < MaxLen
  /\ src' = src \o c
  /\ UNCHANGED
       <<tree, ctl, stack, frames, printed, count, result, runs, earlier>>

ParseText ==
  /\ ctl.m = "idle"
  /\ tree = NotParsed
  /\ tree' = parse(src)
  /\ UNCHANGED
       <<src, ctl, stack, frames, printed, count, result, runs, earlier>>

NextParse ==
  \/ \E c \in Alphabet : Type(c)
  \/ ParseText

SpecParse == Init /\ [][NextParse]_vars

\* The parser on a text and on the same text with a line comment put in.
\* The texts that get a comment are those of length MaxPlain at most.
MaxPlain == 4
CommentLines == {"# hello\n", "#\"\n"}

\* Where the lexical rules of parseExpression and parseApply skip separators
\* in s, as what is left of s at that place: behind each white space
\* character of a separator run that is not inside a comment, ...
RECURSIVE SeparatorEnds(_)
SeparatorEnds(s) ==
  IF Len(s) = 0 THEN {}
  ELSE IF Head(s) \in Whitespace
    THEN {Len(s) - 1} \cup SeparatorEnds(Tail(s))
  ELSE IF Head(s) = "#" THEN SeparatorEnds(SkipComment(Tail(s)))
  ELSE {}

\* ... and behind each '(', ',' and ')' that is not inside a quoted text or
\* a comment. s starts behind a token or at the start of the text.
RECURSIVE SkipPointsFrom(_)
SkipPointsFrom(s) ==
  LET program == skipSpace(s)
      str == MatchString(program)
      num == MatchNumber(program)
      word == MatchWord(program)
      token == IF str > 0 THEN str ELSE IF num > 0 THEN num ELSE word
  IN SeparatorEnds(s) \cup
     (IF Len(program) = 0 THEN {}
      ELSE IF Head(program) \in {"(", ",", ")"}
        THEN {Len(program) - 1} \cup SkipPointsFrom(Tail(program))
      ELSE IF token > 0 THEN SkipPointsFrom(Slice(program, token))
      ELSE {})

\* The same places as offsets into s, the start of the text included.
SkipPoints(s) == {0} \cup {Len(s) - left : left \in SkipPointsFrom(s)}

InsertAt(s, at, comment) ==
  SubSeq(s, 1, at) \o comment \o SubSeq(s, at + 1, Len(s))

TypePlain(c) ==
  /\ ctl.m = "idle"
  /\ tree = NotParsed
  /\ Len(src) < MaxPlain
  /\ src' = src \o c
  /\ UNCHANGED
       <<tree, ctl, stack, frames, printed, count, result, runs, earlier>>

\* A comment is put into a text that has been parsed, and parse is called on
\* the new text.
InsertComment(at, comment) ==
  /\ ctl.m = "idle"
  /\ tree # NotParsed
  /\ Len(src) <= MaxPlain
  /\ at \in SkipPoints(src)
  /\ src' = InsertAt(src, at, comment)
  /\ tree' = parse(src')
  /\ UNCHANGED <<ctl, stack, frames, printed, count, result, runs, earlier>>

NextComment ==
  \/ \E c \in Alphabet : TypePlain(c)
  \/ ParseText
  \/ \E at \in 0 .. MaxPlain : \E comment \in CommentLines :
       InsertComment(at, comment)

SpecComment == Init /\ [][NextComment]_vars

\* =================================================================== claims
\* What the properties below say of a step, in terms of the state it leaves.
Running == ctl.m \in {"eval", "ret"}
Finished(program) == ctl.m = "done" /\ src = program
Gave(program, v) == Finished(program) /\ result = ValueResult(v)
Threw(program, e) ==
  Finished(program) /\ result.kind = "error" /\ result.error = e
\* The step throws e and so ends the run.
Throws(e) == ctl'.m = "done" /\ result'.kind = "error" /\ result'.error = e
\* The step calls evaluate on the node at path in env.
Evaluates(path, env) ==
  /\ ctl' = Eval(path, env)
  /\ count'[path] = count[path] + 1
\* The step calls evaluate on no node.
EvaluatesNothing == ctl'.m # "eval" /\ count' = count

\* The frames from env out to the root, nearest first.
RECURSIVE ChainOf(_, _)
ChainOf(fr, env) ==
  IF env = 0 THEN <<>> ELSE <<env>> \o ChainOf(fr, fr[env].parent)
Owners(fr, env, name) ==
  {i \in 1 .. Len(ChainOf(fr, env)) :
     name \in DOMAIN fr[ChainOf(fr, env)[i]].vars}
\* The nearest frame of env's chain that owns name (when one does).
NearestOwner(fr, env, name) ==
  ChainOf(fr, env)[CHOOSE i \in Owners(fr, env, name) :
                     \A j \in Owners(fr, env, name) : i <= j]

\* The step leaves every binding of every frame as it was, but for name in
\* frame f, which now holds v (a binding it had, or with created, a new one).
OnlyBinding(f, name, v, created) ==
  /\ Len(frames') = Len(frames)
  /\ \A g \in 1 .. Len(frames) :
       /\ frames'[g].parent = frames[g].parent
       /\ DOMAIN frames'[g].vars =
            DOMAIN frames[g].vars \cup (IF g = f /\ created THEN {name} ELSE {})
       /\ \A n \in DOMAIN frames[g].vars :
            (g # f \/ n # name) => frames'[g].vars[n] = frames[g].vars[n]
  /\ name \in DOMAIN frames'[f].vars
  /\ frames'[f].vars[name] = v

\* ----------------------------------------------------------------------- C1
\* C1: set(word, valueExpr) fails with a Reference error if and only if no
\* frame of env's chain, the root frame included, owns word.name; with an
\* owner (be it the root alone, as for print or true) it returns the value.
C1_SetFailsIffNoOwner ==
  [][Returning("set") =>
       LET name == TopNode.args[1].name
       IN IF Owners(frames, Top.env, name) = {}
            THEN Throws("ReferenceError")
          ELSE ctl' = Ret(ctl.val)]_vars

\* ----------------------------------------------------------------------- C2
\* C2: a set that succeeds changes one binding only, word.name in the nearest
\* frame of the chain that owns it: no frame gains a binding, nearer frames
\* and farther bindings of the name keep their values. So a closure's set on
\* a variable of its defining scope is read there afterwards (SetTest: 50).
C2_SetMutatesNearestOwner ==
  /\ [][Returning("set") /\ ctl'.m = "ret" =>
          LET name == TopNode.args[1].name
          IN /\ Owners(frames, Top.env, name) # {}
             /\ OnlyBinding(NearestOwner(frames, Top.env, name), name,
                            ctl.val, FALSE)
             /\ ctl' = Ret(ctl.val)]_vars
  /\ [](/\ Finished(SetTest) =>
             Gave(SetTest, NumV(50)) /\ printed = <<NumV(50)>>
        /\ Finished(SetShadowed) =>
             Gave(SetShadowed, NumV(1)) /\ printed = <<NumV(2)>>
        /\ Finished(SetOuter) => Gave(SetOuter, NumV(7))
        /\ Finished(SetOverBuiltin) => Gave(SetOverBuiltin, NumV(2)))

\* A closure has set x of its defining scope, where 50 is then read; the
\* frame of the closure's call gained no x.
C2_Witness ==
  /\ Gave(SetTest, NumV(50))
  /\ frames[2].vars["x"] = NumV(50)
  /\ Len(frames) = 3
  /\ DOMAIN frames[3].vars = {"val"}

\* ----------------------------------------------------------------------- C3
\* C3: define(word, valueExpr) evaluates valueExpr in env first, then binds
\* word.name in the current frame of env only and returns the value: every
\* other binding, a same-name one of an outer or the global frame included,
\* keeps its value, and a define in a function body is not visible in the
\* defining or calling scope after the call (DefineInFun: y is unbound).
C3_DefineBindsCurrentFrame ==
  /\ [][Special("define") /\ ~BadUse(Node.args) =>
          /\ Evaluates(Child(ctl.path, 2), ctl.env)
          /\ frames' = frames
          /\ Top'.kind = "define" /\ Top'.env = ctl.env
          /\ Top'.path = ctl.path]_vars
  /\ [][Returning("define") =>
          /\ OnlyBinding(Top.env, TopNode.args[1].name, ctl.val, TRUE)
          /\ ctl' = Ret(ctl.val)]_vars
  /\ [](/\ Finished(DefineInFun) =>
             Threw(DefineInFun, "ReferenceError") /\ printed = <<NumV(1)>>
        /\ Finished(DefineOverBuiltin) =>
             /\ Gave(DefineOverBuiltin, NumV(5))
             /\ frames[TopEnv].vars["true"] = BoolV(TRUE)
        /\ Finished(DefineShadow) => Gave(DefineShadow, NumV(3))
        /\ Finished(DefineSelf) => Threw(DefineSelf, "ReferenceError")
        /\ Finished(ArrayTest) =>
             Gave(ArrayTest, NumV(6)) /\ printed = <<NumV(6)>>)

\* true was defined in the run's frame: it reads 5 there, and the global
\* frame's true is what it was.
C3_Witness ==
  /\ Gave(DefineOverBuiltin, NumV(5))
  /\ frames[2].vars["true"] = NumV(5)
  /\ frames[TopEnv].vars["true"] = BoolV(TRUE)

\* ----------------------------------------------------------------------- C4
\* The application a step makes: the operator's value is back and there is
\* no argument, or the last argument's value is back.
Applying ==
  \/ Returning("operator") /\ IsFunction(ctl.val) /\ Len(TopNode.args) = 0
  \/ Returning("args") /\ Top.idx = Len(TopNode.args)
Applied == IF Returning("operator") THEN ctl.val ELSE Top.op
Actuals == IF Returning("operator") THEN <<>> ELSE Append(Top.vals, ctl.val)
\* A fun's call with as many arguments as it has parameters.
CallingFun ==
  Applying /\ Applied.t = "fun" /\ Len(Actuals) = Len(Applied.v.argNames)

\* The step makes frame Len(frames) + 1, with parent p and exactly the
\* parameters' names bound, and evaluates the body in it; the frames there
\* were are as they were.
FreshFrameFor(fn, p) ==
  LET new == Len(frames) + 1
  IN /\ Len(frames') = new
     /\ \A g \in 1 .. Len(frames) : frames'[g] = frames[g]
     /\ frames'[new].parent = p
     /\ DOMAIN frames'[new].vars =
          {fn.v.argNames[i] : i \in 1 .. Len(fn.v.argNames)}
     /\ Evaluates(fn.v.body, new)

\* The function value of a fun expression keeps the environment the
\* expression is evaluated in, its parameters' names and its body.
FunKeepsDefiningEnv ==
  [][Special("fun") /\ ctl'.m = "ret" =>
       /\ ctl'.val.t = "fun"
       /\ ctl'.val.v.env = ctl.env
       /\ ctl'.val.v.body = Child(ctl.path, Len(Node.args))
       /\ ctl'.val.v.argNames =
            [i \in 1 .. Len(Node.args) - 1 |-> Node.args[i].name]
       /\ frames' = frames]_vars

FunResults ==
  [](/\ Finished(ScopeTest) =>
          Gave(ScopeTest, NumV(9)) /\ printed = <<NumV(9)>>
     /\ Finished(PowTest) =>
          Gave(PowTest, NumV(1024)) /\ printed = <<NumV(1024)>>
     /\ Finished(LexicalScope) => Gave(LexicalScope, NumV(1))
     /\ Finished(Counter) => Gave(Counter, NumV(14)))

\* C4 as stated: every call of a fun with the declared number of arguments
\* evaluates the body in a new frame whose parent is the environment the fun
\* expression was evaluated in, with each parameter bound to the
\* corresponding actual value; frames of distinct calls are distinct.
C4_EachParameterBound ==
  /\ FunKeepsDefiningEnv
  /\ [][CallingFun =>
          /\ FreshFrameFor(Applied, Applied.v.env)
          /\ \A i \in 1 .. Len(Actuals) :
               frames'[Len(frames) + 1].vars[Applied.v.argNames[i]]
                 = Actuals[i]]_vars

\* C4 (amended): as C4, with each parameter name bound to the actual value
\* at the last position where the name stands in the parameter list, which
\* is the corresponding value when no name is repeated (ScopeTest: 9,
\* PowTest: 1024).
C4_LastParameterBound ==
  /\ FunKeepsDefiningEnv
  /\ [][CallingFun =>
          /\ FreshFrameFor(Applied, Applied.v.env)
          /\ \A i \in 1 .. Len(Actuals) :
               (\A j \in i + 1 .. Len(Actuals) :
                  Applied.v.argNames[j] # Applied.v.argNames[i])
               => frames'[Len(frames) + 1].vars[Applied.v.argNames[i]]
                    = Actuals[i]]_vars
  /\ FunResults

\* The recursive pow is ten calls deep: each call has its own frame, whose
\* parent is the frame pow was defined in, and reads its own exp.
C4_Witness ==
  /\ src = PowTest
  /\ Len(frames) = 13
  /\ \A f \in 3 .. 13 :
       frames[f].parent = 2 /\ frames[f].vars["exp"] = NumV(13 - f)

\* ----------------------------------------------------------------------- C5
ApplyingBinary ==
  Applying /\ Applied.t = "native" /\ Applied.v \in BinaryOps

\* C5 as stated: a built-in binary operator applied to a number of arguments
\* other than two fails with a Type error at the application, and no value
\* is returned.
C5_WrongArityThrows ==
  [][ApplyingBinary /\ Len(Actuals) # 2 => Throws("TypeError")]_vars

\* C5 (amended): a built-in binary operator applied to a number of arguments
\* other than two raises no error: evaluate applies the native to the values
\* of the arguments, the native reads its first two arguments (a missing one
\* is undefined, further ones are ignored) and its value is returned.
C5_WrongArityReturns ==
  /\ [][ApplyingBinary =>
          /\ ctl' = Ret(Binary(Applied.v, Arg(Actuals, 1), Arg(Actuals, 2)))
          /\ result' = result]_vars
  /\ [](/\ Finished("+(1)") => Gave("+(1)", NaN)
        /\ Finished("+(1, 2, 3)") => Gave("+(1, 2, 3)", NumV(3))
        /\ Finished("<(1)") => Gave("<(1)", BoolV(FALSE))
        /\ Finished("==()") => Gave("==()", BoolV(TRUE)))

\* + has been applied to three arguments and returned the sum of two.
C5_Witness == Gave("+(1, 2, 3)", NumV(3))

\* ----------------------------------------------------------------------- C6
\* The apply nodes of the running program whose operator is the word name
\* and that have n arguments.
FormNodes(name, n) ==
  {p \in DOMAIN count :
     LET node == NodeAt(tree.expr, p)
     IN /\ node.type = "apply"
        /\ node.operator.type = "word"
        /\ node.operator.name = name
        /\ Len(node.args) = n}
\* Path p is argument i of a node of FormNodes(name, n).
IsArgOf(p, i, name, n) ==
  /\ Len(p) > 0
  /\ p[Len(p)] = i
  /\ SubSeq(p, 1, Len(p) - 1) \in FormNodes(name, n)
\* The calls of kind pending for the node at path p.
PendingOf(kind, p) ==
  Cardinality({k \in 1 .. Len(stack) :
                 stack[k].kind = kind /\ stack[k].path = p})
\* evaluate is being called on the node at p.
Entering(p) == IF ctl.m = "eval" /\ ctl.path = p THEN 1 ELSE 0
\* A handler refuses its arguments: a Syntax error, nothing evaluated,
\* printed or bound.
Refuses ==
  /\ Throws("SyntaxError")
  /\ count' = count
  /\ printed' = printed
  /\ frames' = frames

\* C6: if with 3 arguments evaluates cond once and then one branch: then
\* when cond's value is anything but the Boolean false (0, empty text and an
\* empty array included), else when it is the Boolean false; the other
\* branch is never evaluated, so it prints, binds and raises nothing. With
\* another number of arguments it fails with a Syntax error and evaluates no
\* argument.
C6_IfEvaluatesOneBranch ==
  /\ [][Special("if") =>
          IF Len(Node.args) = 3
            THEN Evaluates(Child(ctl.path, 1), ctl.env)
                 /\ frames' = frames /\ printed' = printed
          ELSE Refuses]_vars
  /\ [][Returning("ifCond") =>
          /\ Evaluates(Child(Top.path, IF IsFalse(ctl.val) THEN 3 ELSE 2),
                       Top.env)
          /\ PendingOf("ifCond", Top.path)' = PendingOf("ifCond", Top.path) - 1
          /\ frames' = frames /\ printed' = printed]_vars
  /\ [][Running /\ ctl'.m = "eval" /\ (\E i \in {2, 3} :
                                         IsArgOf(ctl'.path, i, "if", 3)) =>
          /\ Returning("ifCond")
          /\ ctl' = Eval(Child(Top.path, IF IsFalse(ctl.val) THEN 3 ELSE 2),
                         Top.env)]_vars
  /\ [](Running =>
          \A p \in FormNodes("if", 3) :
            /\ count[Child(p, 1)] = count[p] - Entering(p)
            /\ count[Child(p, 2)] + count[Child(p, 3)]
                 = count[Child(p, 1)] - PendingOf("ifCond", p))
  /\ [](ctl.m = "done" /\ tree.ok =>
          \A p \in FormNodes("if", 3) :
            /\ count[Child(p, 1)] = count[p]
            /\ count[Child(p, 2)] + count[Child(p, 3)] <= count[Child(p, 1)])
  /\ [](/\ Finished(IfZero) => Gave(IfZero, NumV(1))
        /\ Finished(IfEmptyText) => Gave(IfEmptyText, NumV(1))
        /\ Finished(IfEmptyArray) => Gave(IfEmptyArray, NumV(1))
        /\ Finished(IfUntakenFails) => Gave(IfUntakenFails, NumV(1))
        /\ Finished(IfUntakenPrints) =>
             Gave(IfUntakenPrints, NumV(2)) /\ printed = <<>>
        /\ Finished(BooleanTest) => Gave(BooleanTest, BoolV(FALSE)))

\* if(0, 1, 2) has evaluated its condition once, then 1 and never 2.
C6_Witness ==
  /\ Gave(IfZero, NumV(1))
  /\ count[<<1>>] = 1 /\ count[<<2>>] = 1 /\ count[<<3>>] = 0

\* ----------------------------------------------------------------------- C7
\* C7: while(cond, body) alternates cond, body, cond, ...: it stops at the
\* first cond that yields the Boolean false and not before (0 and empty text
\* keep it looping), evaluates body once per other cond value, both in the
\* one env with no frame made, and returns the Boolean false whatever body
\* returned. The sum of 1..10 ends with total = 55.
C7_WhileAlternates ==
  /\ [][Special("while") =>
          IF Len(Node.args) = 2
            THEN Evaluates(Child(ctl.path, 1), ctl.env)
                 /\ frames' = frames /\ printed' = printed
          ELSE Refuses]_vars
  /\ [][Returning("whileCond") =>
          /\ IF IsFalse(ctl.val)
               THEN ctl' = Ret(BoolV(FALSE)) /\ count' = count
                    /\ stack' = Pop
             ELSE Evaluates(Child(Top.path, 2), Top.env)
                  /\ Len(stack') = Len(stack)
          /\ frames' = frames /\ printed' = printed]_vars
  /\ [][Returning("whileBody") =>
          /\ Evaluates(Child(Top.path, 1), Top.env)
          /\ Len(stack') = Len(stack)
          /\ frames' = frames /\ printed' = printed]_vars
  /\ [][Running /\ ctl'.m = "eval" /\ IsArgOf(ctl'.path, 2, "while", 2) =>
          /\ Returning("whileCond")
          /\ ~IsFalse(ctl.val)
          /\ ctl' = Eval(Child(Top.path, 2), Top.env)]_vars
  /\ [][Running /\ ctl'.m = "eval" /\ IsArgOf(ctl'.path, 1, "while", 2) =>
          \/ Special("while") /\ ctl' = Eval(Child(ctl.path, 1), ctl.env)
          \/ Returning("whileBody")
             /\ ctl' = Eval(Child(Top.path, 1), Top.env)]_vars
  /\ [](Running =>
          \A p \in FormNodes("while", 2) :
            /\ count[Child(p, 1)] =
                 count[p] - Entering(p) + count[Child(p, 2)]
                 - PendingOf("whileBody", p)
            /\ count[Child(p, 2)] <= count[Child(p, 1)])
  /\ [](/\ Finished(SumProgram) =>
             /\ Gave(SumProgram, NumV(55)) /\ printed = <<NumV(55)>>
             /\ frames[2].vars["total"] = NumV(55)
             /\ count[<<3, 1>>] = 11 /\ count[<<3, 2>>] = 10
        /\ Finished(WhileNever) =>
             Gave(WhileNever, BoolV(FALSE)) /\ printed = <<>>
        /\ Finished(WhileZero) => Gave(WhileZero, NumV(2))
        /\ Finished(WhileEmptyText) => Gave(WhileEmptyText, NumV(2))
        /\ Finished(WhileBodyValue) => Gave(WhileBodyValue, BoolV(FALSE)))

\* The sum program's loop has evaluated its condition 11 times and its body
\* 10 times in the run's one frame, and total is 55.
C7_Witness ==
  /\ Gave(SumProgram, NumV(55))
  /\ frames[2].vars["total"] = NumV(55)
  /\ count[<<3, 1>>] = 11 /\ count[<<3, 2>>] = 10
  /\ Len(frames) = 2

\* ----------------------------------------------------------------------- C8
\* The six names, as the claims list them.
SixForms == {"if", "while", "do", "define", "set", "fun"}
IsFormApply(node) ==
  /\ node.type = "apply"
  /\ node.operator.type = "word"
  /\ node.operator.name \in SixForms
\* The apply nodes of the running program that are no special forms.
Applications ==
  {p \in DOMAIN count :
     NodeAt(tree.expr, p).type = "apply" /\ ~IsFormApply(NodeAt(tree.expr, p))}
Callable(v) == v.t \in {"fun", "native"}
\* Path p is an argument (i >= 1) or the operator (i = 0) of an application.
IsPartOfApplication(p) ==
  Len(p) > 0 /\ SubSeq(p, 1, Len(p) - 1) \in Applications

\* C8: an Apply whose operator is no special-form name evaluates the
\* operator first; a result that is not callable is a Type error before any
\* argument is evaluated; otherwise every argument is evaluated once, from
\* left to right, in the caller's env, and only then is the callable invoked
\* with the values in that order.
C8_OperatorThenArgumentsInOrder ==
  /\ [][ctl.m = "eval" /\ ctl.path \in Applications =>
          /\ Evaluates(Child(ctl.path, 0), ctl.env)
          /\ frames' = frames /\ printed' = printed]_vars
  /\ [][Returning("operator") /\ ~Callable(ctl.val) =>
          /\ Throws("TypeError")
          /\ count' = count /\ frames' = frames /\ printed' = printed]_vars
  /\ [][Running /\ ctl'.m = "eval" /\ IsPartOfApplication(ctl'.path) =>
          LET i == ctl'.path[Len(ctl'.path)]
              p == SubSeq(ctl'.path, 1, Len(ctl'.path) - 1)
          IN IF i = 0
               THEN ctl.m = "eval" /\ ctl.path = p /\ ctl'.env = ctl.env
             ELSE /\ Len(stack) > 0 /\ Top.path = p /\ ctl'.env = Top.env
                  /\ IF i = 1
                       THEN Returning("operator") /\ Callable(ctl.val)
                     ELSE /\ Returning("args")
                          /\ Top.idx = i - 1
                          /\ Len(Top.vals) = i - 2]_vars
  /\ [][Returning("args") /\ ~Applying =>
          /\ Top'.kind = "args" /\ Top'.path = Top.path /\ Top'.env = Top.env
          /\ Top'.op = Top.op
          /\ Top'.vals = Append(Top.vals, ctl.val)
          /\ Evaluates(Child(Top.path, Len(Top.vals) + 2), Top.env)
          /\ frames' = frames /\ printed' = printed]_vars
  /\ [][Returning("operator") /\ Callable(ctl.val) /\ ~Applying =>
          /\ Top'.kind = "args" /\ Top'.path = Top.path /\ Top'.env = Top.env
          /\ Top'.op = ctl.val /\ Top'.vals = <<>>
          /\ Evaluates(Child(Top.path, 1), Top.env)
          /\ frames' = frames /\ printed' = printed]_vars
  /\ [][Applying /\ Applied.t = "native" /\ Applied.v \in {"array", "print"} =>
          /\ Len(Actuals) = Len(TopNode.args)
          /\ ctl' = Ret(IF Applied.v = "array" THEN ArrV(Actuals)
                        ELSE Arg(Actuals, 1))
          /\ printed' = IF Applied.v = "print"
                          THEN Append(printed, Arg(Actuals, 1))
                        ELSE printed]_vars
  /\ [](Running =>
          \A p \in Applications :
            \A i \in 1 .. Len(NodeAt(tree.expr, p).args) :
              count[Child(p, i)] <= count[Child(p, 0)])
  /\ [](/\ Finished(ApplyNumber) =>
             Threw(ApplyNumber, "TypeError") /\ printed = <<>>
        /\ Finished(ApplyPrinted) =>
             Threw(ApplyPrinted, "TypeError") /\ printed = <<NumV(1)>>
        /\ Finished(ApplyInOrder) =>
             /\ Gave(ApplyInOrder, ArrV(<<NumV(1), NumV(2), NumV(3)>>))
             /\ printed = <<NumV(1), NumV(2), NumV(3)>>
             /\ \A i \in 0 .. 3 : count[<<i>>] = 1)

\* array(print(1), print(2), print(3)) has evaluated its operator and each
\* argument once, printed 1, 2, 3 in that order and made the array of them.
C8_Witness ==
  /\ Gave(ApplyInOrder, ArrV(<<NumV(1), NumV(2), NumV(3)>>))
  /\ printed = <<NumV(1), NumV(2), NumV(3)>>
  /\ \A i \in 0 .. 3 : count[<<i>>] = 1

\* ----------------------------------------------------------------------- C9
\* C9: the names if, while, do, define, set and fun cannot be overridden: an
\* Apply whose operator is a Word of one of these names goes to the special
\* form's handler with its arguments unevaluated, in every environment, also
\* when the program has bound the name with define, set or as a parameter.
C9_SpecialFormsNotOverridable ==
  /\ [][ctl.m = "eval" /\ IsFormApply(Node) =>
          LET name == Node.operator.name
              n == Len(Node.args)
              wellFormed ==
                CASE name = "if" -> n = 3
                  [] name = "while" -> n = 2
                  [] name = "do" -> TRUE
                  [] name \in {"define", "set"} ->
                       n = 2 /\ Node.args[1].type = "word"
                  [] name = "fun" ->
                       n > 0 /\ \A i \in 1 .. n - 1 :
                                  Node.args[i].type = "word"
              first == IF name \in {"define", "set"} THEN 2 ELSE 1
          IN /\ count'[Child(ctl.path, 0)] = count[Child(ctl.path, 0)]
             /\ frames' = frames /\ printed' = printed
             /\ IF ~wellFormed THEN Refuses
                ELSE IF name = "fun" THEN ctl'.m = "ret" /\ ctl'.val.t = "fun"
                ELSE IF n = 0 THEN ctl' = Ret(BoolV(FALSE))
                ELSE /\ Evaluates(Child(ctl.path, first), ctl.env)
                     /\ \A i \in 1 .. n :
                          i # first =>
                            count'[Child(ctl.path, i)]
                              = count[Child(ctl.path, i)]]_vars
  /\ [](tree.ok /\ ctl.m # "idle" =>
          \A p \in DOMAIN count :
            IsFormApply(NodeAt(tree.expr, p)) => count[Child(p, 0)] = 0)
  /\ [](/\ Finished(OverrideIf) => Gave(OverrideIf, NumV(1))
        /\ Finished(OverrideParam) => Gave(OverrideParam, NumV(7))
        /\ Finished(OverrideSet) => Gave(OverrideSet, NumV(2)))

\* The program bound if to a function of three parameters that returns 99;
\* if(true, 1, 2) was the special form all the same and gave 1.
C9_Witness ==
  /\ Gave(OverrideIf, NumV(1))
  /\ frames[2].vars["if"].t = "fun"
  /\ count[<<2, 1>>] = 1 /\ count[<<2, 2>>] = 1 /\ count[<<2, 3>>] = 0

\* ---------------------------------------------------------------------- C10
CharAt(s, i) == SubSeq(s, i, i)
IsSuffix(r, s) ==
  Len(r) <= Len(s) /\ SubSeq(s, Len(s) - Len(r) + 1, Len(s)) = r
RECURSIVE DropLine(_)
DropLine(s) ==
  IF Len(s) = 0 \/ Head(s) \in {"\n", "\r"} THEN s ELSE DropLine(Tail(s))
\* s is white space and comments only.
RECURSIVE OnlySeparators(_)
OnlySeparators(s) ==
  \/ Len(s) = 0
  \/ Head(s) \in {" ", "\t", "\n", "\r", "\f"} /\ OnlySeparators(Tail(s))
  \/ Head(s) = "#" /\ OnlySeparators(DropLine(Tail(s)))
RECURSIVE Occurrences(_, _)
Occurrences(s, c) ==
  IF Len(s) = 0 THEN 0
  ELSE (IF Head(s) = c THEN 1 ELSE 0) + Occurrences(Tail(s), c)
\* A tree of the three variants.
RECURSIVE IsExpression(_)
IsExpression(e) ==
  \/ e.type = "value" /\ \/ e.value.t = "num" /\ e.value.v \in Nat
                         \/ e.value.t = "str"
                            /\ Occurrences(e.value.v, "\"") = 0
  \/ e.type = "word" /\ Len(e.name) > 0
  \/ e.type = "apply"
     /\ IsExpression(e.operator)
     /\ \A i \in 1 .. Len(e.args) : IsExpression(e.args[i])
\* A text with neither quote nor comment sign and unequal numbers of '(' and
\* ')': some parenthesis is not closed, or not opened.
Unbalanced(s) ==
  /\ Occurrences(s, "\"") = 0
  /\ Occurrences(s, "#") = 0
  /\ Occurrences(s, "(") # Occurrences(s, ")")
\* A text that is a name, '(' and an argument followed by something that is
\* neither ',' nor ')' (the end of the text included).
MissingCommaOrParen(s) ==
  \E i \in 2 .. Len(s) :
    /\ CharAt(s, i) = "("
    /\ \A j \in 1 .. i - 1 : CharAt(s, j) \in {"a", "1"}
    /\ LET arg == parseExpression(Slice(s, i))
       IN arg.ok /\ First(skipSpace(arg.rest)) \notin {",", ")"}

\* C10: parse ends on every text in one of two ways: it returns an
\* Expression, and then the whole text was read (white space and comments
\* alone follow the expression), or it fails with a Syntax error, as it does
\* when other text follows a complete expression, when an argument list
\* lacks its ',' or ')' (a '(' open at the end of the text included) and when
\* no lexical rule matches (the empty text included). A parseExpression that
\* succeeds has consumed at least one character.
C10_ParseConsumesAllOrFails ==
  tree # NotParsed =>
    LET first == parseExpression(src)
    IN /\ IF tree.ok
            THEN /\ IsExpression(tree.expr)
                 /\ OnlySeparators(tree.rest)
                 /\ IsSuffix(tree.rest, src)
                 /\ first.ok /\ first.expr = tree.expr
          ELSE tree.error = "SyntaxError"
       /\ first.ok => IsSuffix(first.rest, src) /\ Len(first.rest) < Len(src)
       /\ first.ok /\ ~OnlySeparators(first.rest) => ~tree.ok
       /\ ~first.ok => ~tree.ok
       /\ OnlySeparators(src) => ~tree.ok
       /\ Unbalanced(src) => ~tree.ok
       /\ MissingCommaOrParen(src) => ~tree.ok

\* a(1) and a comment have been parsed: the application is returned and
\* nothing of the text is left.
C10_Witness ==
  /\ src = "a(1)#"
  /\ tree = Parsed(ApplyExpr(WordExpr("a"), <<ValueExpr(NumV(1))>>), "")

\* The kind of a failure of parse: which error, and which of the three
\* messages (without the text the first message quotes).
HasPrefix(s, p) == Len(p) <= Len(s) /\ SubSeq(s, 1, Len(p)) = p
Failure(t) ==
  <<t.error,
    IF HasPrefix(t.message, "Unexected syntax: ") THEN "Unexected syntax"
    ELSE t.message>>
SameOutcome(t, u) ==
  IF t.ok THEN u.ok /\ u.expr = t.expr
  ELSE ~u.ok /\ Failure(u) = Failure(t)
\* The two texts of the source's comment test.
CommentTest ==
  /\ parse("# hello\nx") = Parsed(WordExpr("x"), "")
  /\ parse("a # one\n    # two \n()")
       = Parsed(ApplyExpr(WordExpr("a"), <<>>), "")
\* src' is src with one line comment more.
CommentInserted ==
  /\ tree # NotParsed
  /\ \E at \in SkipPoints(src), comment \in CommentLines :
       src' = InsertAt(src, at, comment)

\* C11: comments are transparent to parsing: a text with a line comment ('#'
\* to the end of the line, and the newline) put in where separators are
\* skipped (the start of the text, behind '(', ',' or ')', behind white space
\* that follows a token) parses to the same Expression, or fails the same way,
\* as the text without it; "# hello\nx" parses to the Word x and
\* "a # one\n    # two \n()" to the application of a to nothing.
C11_CommentsTransparent ==
  [][/\ CommentTest
     /\ CommentInserted => SameOutcome(tree, tree')]_vars

\* The comment "# hello\n" has been put between a( and ), behind the white
\* space, and the application of a to nothing is parsed.
C11_Witness ==
  /\ src = "a( # hello\n)"
  /\ tree = Parsed(ApplyExpr(WordExpr("a"), <<>>), "")

\* ---------------------------------------------------------------------- C12
\* topEnv is what it was made: the same names with the same values.
GlobalUnchanged == frames[TopEnv] = Frame(0, TopEnvVars)
\* The names the environments of the run that ends hold as own properties.
NamesOfRun == UNION {DOMAIN frames[e].vars : e \in 2 .. Len(frames)}
\* The step is a call of run().
RunStarts == runs' = runs + 1
\* In the environment the new run evaluates in, a name reads as topEnv has
\* it, and a name topEnv does not have is unbound.
UnboundAtStart ==
  /\ Len(frames') = 2
  /\ \A name \in NamesOfRun \cup DOMAIN TopEnvVars :
       IF name \in DOMAIN TopEnvVars
         THEN Get(frames', 2, name) = TopEnvVars[name]
       ELSE ~In(frames', 2, name)
\* A run of a source that was run before has ended as that run did.
SameAsEarlier ==
  ctl.m = "done" =>
    \A e \in earlier :
      e.src = src => e.result = result /\ e.printed = printed

====
